---- MODULE Spec2Model ----
(***************************************************************************)
(* Model of packages/schema/src/config/build.ts: the build section of the  *)
(* configuration schema.  Every field of the schema carries a $resolve     *)
(* callback that turns the user's (possibly missing) value into the        *)
(* resolved one, reading sibling options through the async getter `get`.   *)
(*                                                                         *)
(* JavaScript values are tagged records, so that undefined, null, false,   *)
(* the empty string and objects stay distinct and `typeof`, truthiness,    *)
(* `??` and `||` can be computed as the language computes them.            *)
(***************************************************************************)
EXTENDS Integers, Sequences, FiniteSets, TLC

VARIABLES input, env, pc, got, out, warnings

vars == <<input, env, pc, got, out, warnings>>

(* Longest user-supplied list (transpile, keyedComposables, tree-shaken names) *)
MaxList == 2

----------------------------------------------------------------------------
(* JavaScript values *)

Undefined == [t |-> "undefined"]
Null == [t |-> "null"]
Bool(b) == [t |-> "boolean", b |-> b]
Str(s) == [t |-> "string", s |-> s]
Num(n) == [t |-> "number", n |-> n]
Arr(a) == [t |-> "array", a |-> a]
Obj(o) == [t |-> "object", o |-> o]
Fun(f) == [t |-> "function", f |-> f]
(* a string holding a file path, kept as its '/'-separated segments; an
   absolute path starts with the empty segment *)
Path(segs) == [t |-> "string", segs |-> segs]

Empty == [k \in {} |-> Undefined]

TypeOf(v) ==
  IF v.t \in {"null", "array", "object"} THEN "object" ELSE v.t

Truthy(v) ==
  CASE v.t \in {"undefined", "null"} -> FALSE
    [] v.t = "boolean" -> v.b
    [] v.t = "number" -> v.n /= 0
    [] v.t = "string" -> IF "s" \in DOMAIN v THEN v.s /= "" ELSE v.segs /= <<>>
    [] OTHER -> TRUE

Nullish(v) == v.t \in {"undefined", "null"}

(* Array.prototype.filter(Boolean) *)
RECURSIVE FilterBoolean(_)
FilterBoolean(a) ==
  IF a = <<>> THEN <<>>
  ELSE IF Truthy(Head(a)) THEN <<Head(a)>> \o FilterBoolean(Tail(a))
  ELSE FilterBoolean(Tail(a))

(* `...val || []` *)
SpreadOrEmpty(val) == IF Truthy(val) THEN val.a ELSE <<>>

----------------------------------------------------------------------------
(* defu(object, defaults): the library's merge.  A copy of the defaults is
   overwritten key by key with the object's own values; null and undefined
   values are skipped, two arrays are concatenated (object's first), two
   plain objects are merged recursively. *)

IsPlainObject(v) == v.t = "object"

OwnKeys(v) == IF v.t = "object" THEN DOMAIN v.o ELSE {}

(* faulty variant: the defaults overwrite the object's values *)
RECURSIVE DefuDefaultsWin(_, _)
DefuDefaultsWin(base, defaults) ==
  IF ~IsPlainObject(defaults) THEN DefuDefaultsWin(base, Obj(Empty))
  ELSE LET d == defaults.o
           set == {k \in OwnKeys(base) : ~Nullish(base.o[k])}
       IN Obj([k \in DOMAIN d \cup set |-> IF k \in DOMAIN d THEN d[k] ELSE base.o[k]])

RECURSIVE Defu(_, _)
Defu(base, defaults) ==
  IF ~IsPlainObject(defaults) THEN Defu(base, Obj(Empty))
  ELSE LET d == defaults.o
           set == {k \in OwnKeys(base) : ~Nullish(base.o[k])}
       IN Obj([k \in DOMAIN d \cup set |->
                IF k \notin set THEN d[k]
                ELSE LET value == base.o[k] IN
                     IF k \notin DOMAIN d THEN value
                     ELSE IF value.t = "array" /\ d[k].t = "array"
                          THEN Arr(value.a \o d[k].a)
                     ELSE IF IsPlainObject(value) /\ IsPlainObject(d[k])
                          THEN Defu(value, d[k])
                     ELSE value])

----------------------------------------------------------------------------
(* pathe's join: the segments are concatenated and the result is normalised
   ('.' and empty segments dropped, '..' folded into its parent) *)

RECURSIVE NormalizeString(_, _)
NormalizeString(todo, acc) ==
  IF todo = <<>> THEN acc
  ELSE LET h == Head(todo)
           n == Len(acc)
       IN IF h = "." \/ (h = "" /\ n > 0)
            THEN NormalizeString(Tail(todo), acc)
          ELSE IF h = ".." /\ n > 0 /\ acc[n] = ""
            THEN NormalizeString(Tail(todo), acc)
          ELSE IF h = ".." /\ n > 0 /\ acc[n] /= ".."
            THEN NormalizeString(Tail(todo), SubSeq(acc, 1, n - 1))
          ELSE NormalizeString(Tail(todo), Append(acc, h))

join(dir, name) == Path(NormalizeString(dir.segs \o <<name>>, <<>>))

----------------------------------------------------------------------------
(* The $resolve callbacks.  An async resolver is split where it awaits: the
   `...Resolve` operator is the part that runs when the resolver is called and
   either returns or suspends, the `...Resume` operator is the continuation
   that receives the awaited sibling value. *)

Return(v) == [done |-> TRUE, value |-> v]
Suspend == [done |-> FALSE]

(* builder *)
map ==
  [rspack |-> "@nuxt/rspack-builder",
   vite |-> "@nuxt/vite-builder",
   webpack |-> "@nuxt/webpack-builder"]

(* map[val]: the key is looked up as a string *)
mapGet(val) ==
  IF val.t = "string" /\ "s" \in DOMAIN val /\ val.s \in DOMAIN map
    THEN Str(map[val.s])
    ELSE Undefined

builderDefault(val) == IF val = Undefined THEN Str("vite") ELSE val

(* faulty variant: `val || map[val]`, the alias is returned unmapped *)
builderResolveValFirst(val0) ==
  LET val == builderDefault(val0) IN
  IF TypeOf(val) = "object" THEN Return(val)
  ELSE IF Truthy(val) THEN Return(val)
  ELSE IF Truthy(mapGet(val)) THEN Return(mapGet(val))
  ELSE Suspend

builderResolve(val0) ==
  LET val == builderDefault(val0) IN
  IF TypeOf(val) = "object" THEN Return(val)
  ELSE IF Truthy(mapGet(val)) THEN Return(mapGet(val))
  ELSE IF Truthy(val) THEN Return(val)
  ELSE Suspend

builderResume(vite) ==
  IF vite = Bool(FALSE) THEN Str(map.webpack) ELSE Str(map.vite)

(* sourcemap *)
(* faulty variant: the boolean shorthand is not recognised *)
sourcemapResolveNoBooleanCase(val) == Suspend

sourcemapResolve(val) ==
  IF TypeOf(val) = "boolean"
    THEN Return(Obj([server |-> val, client |-> val]))
    ELSE Suspend

sourcemapResume(val, dev) ==
  Defu(val, Obj([server |-> Bool(TRUE), client |-> dev]))

(* logLevel *)
logLevels == {Str("silent"), Str("info"), Str("verbose")}

(* faulty variant: the `val &&` guard is missing *)
logLevelWarnsUnset(val) == val \notin logLevels

logLevelWarns(val) == Truthy(val) /\ val \notin logLevels

logLevelResolve(val, isTest) ==
  IF Nullish(val)
    THEN (IF isTest THEN Str("silent") ELSE Str("info"))
    ELSE val

(* build.transpile *)
transpileResolve(val) ==
  Arr(FilterBoolean(IF Truthy(val) THEN val.a ELSE <<>>))

(* build.analyze *)
analyzeResume(val, rootDir, analyzeDir) ==
  Defu(IF TypeOf(val) = "boolean" THEN Obj([enabled |-> val]) ELSE val,
       Obj([template |-> Str("treemap"),
            projectRoot |-> rootDir,
            filename |-> join(analyzeDir, "{name}.html")]))

(* Promise.all: the results keep the order of the promises passed in,
   whatever the order in which they settle *)
(* faulty variant: results in the order the promises settle *)
PromiseAllBySettleOrder(keys, settledSeq) ==
  [i \in 1..Len(keys) |-> settledSeq[i].value]

PromiseAll(keys, settledSeq) ==
  [i \in 1..Len(keys) |->
     (CHOOSE e \in {settledSeq[j] : j \in 1..Len(settledSeq)} : e.key = keys[i]).value]

analyzeGets == <<"rootDir", "analyzeDir">>

(* optimization.keyedComposables *)
Keyed(name, argumentLength) ==
  Obj([name |-> Str(name), argumentLength |-> Num(argumentLength)])

keyedBuiltins ==
  << Keyed("callOnce", 3),
     Keyed("defineNuxtComponent", 2),
     Keyed("useState", 2),
     Keyed("useFetch", 3),
     Keyed("useAsyncData", 3),
     Keyed("useLazyAsyncData", 3),
     Keyed("useLazyFetch", 3) >>

(* faulty variant: the user's entries come before the built-in ones *)
keyedComposablesResolveUserFirst(val) ==
  Arr(FilterBoolean(SpreadOrEmpty(val) \o keyedBuiltins))

keyedComposablesResolve(val) ==
  Arr(FilterBoolean(keyedBuiltins \o SpreadOrEmpty(val)))

(* optimization.treeShake.composables *)
Names(seq) == Arr([i \in 1..Len(seq) |-> Str(seq[i])])

serverDefaults ==
  "vue" :> Names(<<"onMounted", "onUpdated", "onUnmounted", "onBeforeMount",
                   "onBeforeUpdate", "onBeforeUnmount", "onRenderTracked",
                   "onRenderTriggered", "onActivated", "onDeactivated">>)
  @@ "#app" :> Names(<<"definePayloadReviver", "definePageMeta">>)

clientDefaults ==
  "vue" :> Names(<<"onRenderTracked", "onRenderTriggered", "onServerPrefetch">>)
  @@ "#app" :> Names(<<"definePayloadReducer", "definePageMeta", "onPrehydrate">>)

(* faulty variant: the defaults are added in dev mode too *)
treeShakeResumeAlwaysDefaults(val, dev, defaults) ==
  Defu(IF Truthy(val) THEN val ELSE Obj(Empty), Obj(defaults))

treeShakeResume(val, dev, defaults) ==
  Defu(IF Truthy(val) THEN val ELSE Obj(Empty),
       IF Truthy(dev) THEN Obj(Empty) ELSE Obj(defaults))

----------------------------------------------------------------------------
(* The inputs: what a user may write for each field, and the sibling options
   the resolvers read through `get` *)

Fields ==
  {"builder", "sourcemap", "logLevel", "transpile", "analyze",
   "keyedComposables", "server", "client"}

SeqsUpTo(S, n) == UNION {[1..k -> S] : k \in 0..n}

(* every object whose keys are a subset of DOMAIN choices, key k holding one
   of choices[k] *)
ObjectsOver(choices) ==
  UNION {[K -> UNION {choices[k] : k \in K}] : K \in SUBSET DOMAIN choices}

WellKeyed(o, choices) == \A k \in DOMAIN o : o[k] \in choices[k]

Objects(choices) ==
  {Obj(o) : o \in {x \in ObjectsOver(choices) : WellKeyed(x, choices)}}

CustomBuilder == Obj([bundle |-> Fun("bundle")])

builderInputs ==
  {Undefined, Null, Str("vite"), Str("webpack"), Str("rspack"), Str(""),
   Str("@my/custom-builder"), CustomBuilder}

sourcemapSide == {Bool(TRUE), Bool(FALSE), Str("hidden"), Undefined, Null}

sourcemapInputs ==
  {Undefined, Null, Bool(TRUE), Bool(FALSE)}
    \cup Objects([server |-> sourcemapSide, client |-> sourcemapSide])

logLevelInputs ==
  {Undefined, Null, Str("silent"), Str("info"), Str("verbose"), Str(""),
   Str("debug")}

transpileEntries == {Str("ky"), Fun("isLegacy"), Bool(FALSE), Null, Str("")}

transpileInputs ==
  {Undefined, Null} \cup {Arr(a) : a \in SeqsUpTo(transpileEntries, MaxList)}

analyzeInputs ==
  {Undefined, Null, Bool(TRUE), Bool(FALSE)}
    \cup Objects([enabled |-> {Bool(TRUE), Bool(FALSE)},
                  template |-> {Str("sunburst")},
                  projectRoot |-> {Path(<<"", "custom">>)},
                  filename |-> {Str("stats.html"), Null}])

keyedEntries ==
  {Keyed("useMyData", 1), Keyed("useState", 4), Null, Bool(FALSE), Undefined}

keyedComposablesInputs ==
  {Undefined, Null} \cup {Arr(a) : a \in SeqsUpTo(keyedEntries, MaxList)}

treeShakeNames ==
  {Names(a) : a \in SeqsUpTo({"onMounted", "useServerOnlyComposable"}, MaxList)}

treeShakeInputs ==
  {Undefined, Null}
    \cup Objects("vue" :> treeShakeNames @@ "myPackage" :> treeShakeNames)

Inputs(f) ==
  CASE f = "builder" -> builderInputs
    [] f = "sourcemap" -> sourcemapInputs
    [] f = "logLevel" -> logLevelInputs
    [] f = "transpile" -> transpileInputs
    [] f = "analyze" -> analyzeInputs
    [] f = "keyedComposables" -> keyedComposablesInputs
    [] f \in {"server", "client"} -> treeShakeInputs

Envs ==
  [dev : {Bool(TRUE), Bool(FALSE)},
   vite : {Bool(FALSE), Undefined, Obj(Empty)},
   rootDir : {Path(<<"", "proj">>), Path(<<"", "srv", "app">>)},
   analyzeDir : {Path(<<"", "proj", ".nuxt", "analyze">>),
                 Path(<<"", "proj", "dist", "..", ".nuxt", ".", "analyze">>)},
   isTest : BOOLEAN]

(* whole configurations, for resolving every field of one schema together *)
Unset == [f \in Fields |-> Undefined]

Configs ==
  { Unset,
    [Unset EXCEPT !["builder"] = Str(""),
                  !["sourcemap"] = Obj([client |-> Str("hidden")]),
                  !["logLevel"] = Str("debug"),
                  !["transpile"] = Arr(<<Str("ky"), Bool(FALSE)>>),
                  !["analyze"] = Obj([enabled |-> Bool(TRUE), filename |-> Str("stats.html")]),
                  !["keyedComposables"] = Arr(<<Null, Keyed("useState", 4)>>),
                  !["server"] = Obj("vue" :> Names(<<"onMounted">>)),
                  !["client"] = Obj("myPackage" :> Names(<<"useServerOnlyComposable">>))],
    [Unset EXCEPT !["builder"] = Str("webpack"),
                  !["sourcemap"] = Bool(FALSE),
                  !["logLevel"] = Str("verbose"),
                  !["analyze"] = Bool(TRUE),
                  !["keyedComposables"] = Arr(<<Null, Keyed("useMyData", 1)>>)] }

ConfigEnvs ==
  {e \in Envs : e.rootDir = Path(<<"", "proj">>)
                  /\ e.analyzeDir = Path(<<"", "proj", ".nuxt", "analyze">>)
                  /\ e.vite /= Undefined}

NotResolved == [t |-> "pending"]

----------------------------------------------------------------------------
(* The state: `input` the user's configuration, `env` the sibling options,
   pc[f] where the resolver of field f stands ("skipped": not called, "idle":
   to be called, "await": suspended on its sibling reads, "done": returned),
   `got` the sibling reads of build.analyze that have settled, in the order
   they settled, out[f] the resolved value, `warnings` what consola.warn was
   called with. *)

Start(f) == pc[f] = "idle"
Awaiting(f) == pc[f] = "await"
Done(f) == pc[f] = "done"

Finish(f, v) ==
  /\ pc' = [pc EXCEPT ![f] = "done"]
  /\ out' = [out EXCEPT ![f] = v]

Run(f, r) ==
  IF r.done THEN Finish(f, r.value)
  ELSE pc' = [pc EXCEPT ![f] = "await"] /\ out' = out

InitCommon ==
  /\ got = <<>>
  /\ out = [f \in Fields |-> NotResolved]
  /\ warnings = <<>>

(* one resolver is called with one value *)
InitResolver ==
  /\ \E f \in Fields : \E v \in Inputs(f) :
       /\ input = [Unset EXCEPT ![f] = v]
       /\ pc = [g \in Fields |-> IF g = f THEN "idle" ELSE "skipped"]
  /\ env \in Envs
  /\ InitCommon

(* every field of a configuration is resolved *)
InitConfig ==
  /\ input \in Configs
  /\ env \in ConfigEnvs
  /\ pc = [f \in Fields |-> "idle"]
  /\ InitCommon

Init == InitResolver \/ InitConfig

ResolveBuilder ==
  /\ Start("builder")
  /\ Run("builder", builderResolve(input["builder"]))
  /\ UNCHANGED <<input, env, got, warnings>>

ResumeBuilder ==
  /\ Awaiting("builder")
  /\ Finish("builder", builderResume(env.vite))
  /\ UNCHANGED <<input, env, got, warnings>>

ResolveSourcemap ==
  /\ Start("sourcemap")
  /\ Run("sourcemap", sourcemapResolve(input["sourcemap"]))
  /\ UNCHANGED <<input, env, got, warnings>>

ResumeSourcemap ==
  /\ Awaiting("sourcemap")
  /\ Finish("sourcemap", sourcemapResume(input["sourcemap"], env.dev))
  /\ UNCHANGED <<input, env, got, warnings>>

ResolveLogLevel ==
  /\ Start("logLevel")
  /\ warnings' = IF logLevelWarns(input["logLevel"])
                   THEN Append(warnings, input["logLevel"])
                   ELSE warnings
  /\ Finish("logLevel", logLevelResolve(input["logLevel"], env.isTest))
  /\ UNCHANGED <<input, env, got>>

ResolveTranspile ==
  /\ Start("transpile")
  /\ Finish("transpile", transpileResolve(input["transpile"]))
  /\ UNCHANGED <<input, env, got, warnings>>

ResolveAnalyze ==
  /\ Start("analyze")
  /\ pc' = [pc EXCEPT !["analyze"] = "await"]
  /\ UNCHANGED <<input, env, got, out, warnings>>

(* one of the two sibling reads of build.analyze settles *)
SettleGet ==
  /\ Awaiting("analyze")
  /\ \E i \in 1..Len(analyzeGets) :
       /\ \A j \in 1..Len(got) : got[j].key /= analyzeGets[i]
       /\ got' = Append(got, [key |-> analyzeGets[i], value |-> env[analyzeGets[i]]])
  /\ UNCHANGED <<input, env, pc, out, warnings>>

ResumeAnalyze ==
  /\ Awaiting("analyze")
  /\ Len(got) = Len(analyzeGets)
  /\ LET all == PromiseAll(analyzeGets, got) IN
       Finish("analyze", analyzeResume(input["analyze"], all[1], all[2]))
  /\ UNCHANGED <<input, env, got, warnings>>

ResolveKeyedComposables ==
  /\ Start("keyedComposables")
  /\ Finish("keyedComposables", keyedComposablesResolve(input["keyedComposables"]))
  /\ UNCHANGED <<input, env, got, warnings>>

ResolveServer ==
  /\ Start("server")
  /\ pc' = [pc EXCEPT !["server"] = "await"]
  /\ UNCHANGED <<input, env, got, out, warnings>>

ResumeServer ==
  /\ Awaiting("server")
  /\ Finish("server", treeShakeResume(input["server"], env.dev, serverDefaults))
  /\ UNCHANGED <<input, env, got, warnings>>

ResolveClient ==
  /\ Start("client")
  /\ pc' = [pc EXCEPT !["client"] = "await"]
  /\ UNCHANGED <<input, env, got, out, warnings>>

ResumeClient ==
  /\ Awaiting("client")
  /\ Finish("client", treeShakeResume(input["client"], env.dev, clientDefaults))
  /\ UNCHANGED <<input, env, got, warnings>>

Next ==
  \/ ResolveBuilder
  \/ ResumeBuilder
  \/ ResolveSourcemap
  \/ ResumeSourcemap
  \/ ResolveLogLevel
  \/ ResolveTranspile
  \/ ResolveAnalyze
  \/ SettleGet
  \/ ResumeAnalyze
  \/ ResolveKeyedComposables
  \/ ResolveServer
  \/ ResumeServer
  \/ ResolveClient
  \/ ResumeClient

Spec == Init /\ [][Next]_vars

----------------------------------------------------------------------------
(* Properties *)

Range(a) == {a[i] : i \in 1..Len(a)}

AllDone == \A f \in Fields : Done(f)

(* the entries of u that filter(Boolean) drops *)
Falsy == {Undefined, Null, Bool(FALSE), Str(""), Num(0)}

(* `kept` is `u` without its falsy entries, order preserved *)
IsTruthySubsequence(kept, u) ==
  LET P == {i \in 1..Len(u) : u[i] \notin Falsy} IN
    /\ Len(kept) = Cardinality(P)
    /\ \A i \in P : kept[Cardinality({j \in P : j <= i})] = u[i]

UserList(val) == IF val.t = "array" THEN val.a ELSE <<>>

(* C1: a boolean sourcemap b resolves to exactly { server: b, client: b },
   whatever the value of dev. *)
BooleanSourcemapAppliesToBoth ==
  (Done("sourcemap") /\ input["sourcemap"].t = "boolean") =>
    out["sourcemap"] = Obj([server |-> input["sourcemap"], client |-> input["sourcemap"]])

BooleanSourcemapWitness ==
  /\ Done("sourcemap")
  /\ input["sourcemap"] = Bool(FALSE)
  /\ env.dev = Bool(TRUE)
  /\ out["sourcemap"] = Obj([server |-> Bool(FALSE), client |-> Bool(FALSE)])

LogLevelFallback == IF env.isTest THEN Str("silent") ELSE Str("info")

(* C2: every logLevel string other than 'silent', 'info', 'verbose' (the empty
   string included) produces a warning and resolves to the fallback ('info',
   or 'silent' under test), never to the invalid string itself. *)
InvalidLogLevelFallsBack ==
  (Done("logLevel") /\ input["logLevel"].t = "string" /\ input["logLevel"] \notin logLevels) =>
    /\ warnings /= <<>>
    /\ out["logLevel"] = LogLevelFallback
    /\ out["logLevel"] /= input["logLevel"]

(* C3: the aliases 'vite', 'webpack' and 'rspack' resolve to their package
   identifiers, whatever the sibling vite option is. *)
AliasResolvesToPackage ==
  Done("builder") =>
    /\ input["builder"] = Str("vite") => out["builder"] = Str("@nuxt/vite-builder")
    /\ input["builder"] = Str("webpack") => out["builder"] = Str("@nuxt/webpack-builder")
    /\ input["builder"] = Str("rspack") => out["builder"] = Str("@nuxt/rspack-builder")

AliasWitness ==
  /\ Done("builder")
  /\ input["builder"] = Str("rspack")
  /\ env.vite = Bool(FALSE)
  /\ out["builder"] = Str("@nuxt/rspack-builder")

(* C4: after resolution none of builder, sourcemap.server, sourcemap.client,
   logLevel, build.transpile, build.analyze and keyedComposables is undefined
   or null. *)
ResolvedFieldsConcrete ==
  /\ \A f \in {"builder", "sourcemap", "logLevel", "transpile", "analyze", "keyedComposables"} :
       Done(f) => ~Nullish(out[f])
  /\ Done("sourcemap") =>
       \A side \in {"server", "client"} :
         side \in DOMAIN out["sourcemap"].o /\ ~Nullish(out["sourcemap"].o[side])

SourcemapDefault(side) == IF side = "server" THEN Bool(TRUE) ELSE env.dev

(* the keys the user supplied for build.analyze, a boolean b standing for
   { enabled: b } *)
AnalyzeSupplied ==
  LET val == input["analyze"] IN
    IF val.t = "boolean" THEN [enabled |-> val]
    ELSE IF val.t = "object" THEN val.o
    ELSE Empty

AnalyzeDefaulted ==
  [template |-> Str("treemap"),
   projectRoot |-> env.rootDir,
   filename |-> join(env.analyzeDir, "{name}.html")]

(* C5: explicit user values win over computed defaults.  In a sourcemap object
   each of server and client the user supplies (true, false, 'hidden') is
   kept, and each absent one gets its default (server: true, client: dev); an
   unset sourcemap gives { server: true, client: dev }.  In build.analyze the
   supplied keys enabled, template, projectRoot and filename are kept and the
   absent ones default to 'treemap', rootDir and analyzeDir joined with
   '{name}.html'; a boolean b counts as { enabled: b }. *)
UserValuesWinOverDefaults ==
  /\ (Done("sourcemap") /\ input["sourcemap"].t \in {"object", "undefined"}) =>
       LET user == IF input["sourcemap"].t = "object" THEN input["sourcemap"].o ELSE Empty
           res == out["sourcemap"].o
       IN /\ DOMAIN res = {"server", "client"}
          /\ \A side \in {"server", "client"} :
               /\ (side \in DOMAIN user /\ user[side] \in {Bool(TRUE), Bool(FALSE), Str("hidden")})
                    => res[side] = user[side]
               /\ side \notin DOMAIN user => res[side] = SourcemapDefault(side)
  /\ (Done("analyze") /\ input["analyze"].t \in {"object", "boolean", "undefined"}) =>
       LET user == AnalyzeSupplied
           res == out["analyze"].o
       IN /\ \A k \in DOMAIN user : ~Nullish(user[k]) => (k \in DOMAIN res /\ res[k] = user[k])
          /\ \A k \in DOMAIN AnalyzeDefaulted :
               k \notin DOMAIN user => (k \in DOMAIN res /\ res[k] = AnalyzeDefaulted[k])

UserValuesWitness ==
  /\ Done("sourcemap") /\ Done("analyze")
  /\ input["sourcemap"] = Obj([client |-> Str("hidden")])
  /\ out["sourcemap"] = Obj([server |-> Bool(TRUE), client |-> Str("hidden")])
  /\ input["analyze"] = Obj([enabled |-> Bool(TRUE), filename |-> Str("stats.html")])
  /\ out["analyze"] = Obj([enabled |-> Bool(TRUE),
                           filename |-> Str("stats.html"),
                           template |-> Str("treemap"),
                           projectRoot |-> Path(<<"", "proj">>)])

(* C6: an unset logLevel (undefined or null) resolves to 'silent' under test
   and to 'info' otherwise, without a warning; 'silent', 'info' and 'verbose'
   are returned unchanged without a warning; a warning implies an input
   outside these three values. *)
LogLevelDefaultsAndValid ==
  Done("logLevel") =>
    /\ Nullish(input["logLevel"]) =>
         (out["logLevel"] = LogLevelFallback /\ warnings = <<>>)
    /\ input["logLevel"] \in logLevels =>
         (out["logLevel"] = input["logLevel"] /\ warnings = <<>>)
    /\ warnings /= <<>> =>
         (~Nullish(input["logLevel"]) /\ input["logLevel"] \notin logLevels)

LogLevelWitness ==
  /\ Done("logLevel")
  /\ input["logLevel"] = Undefined
  /\ env.isTest
  /\ out["logLevel"] = Str("silent")
  /\ warnings = <<>>

BuiltinKeyed ==
  << <<"callOnce", 3>>, <<"defineNuxtComponent", 2>>, <<"useState", 2>>,
     <<"useFetch", 3>>, <<"useAsyncData", 3>>, <<"useLazyAsyncData", 3>>,
     <<"useLazyFetch", 3>> >>

(* C7: the resolved keyedComposables is the seven built-in entries in their
   fixed order followed by the user's truthy entries in their original order
   (falsy ones dropped, nothing replaced even on an equal name); build.transpile
   is the user's list without its falsy entries, [] when unset. *)
ListsKeepTruthyInOrder ==
  /\ Done("keyedComposables") =>
       LET res == out["keyedComposables"].a IN
         /\ Len(res) >= Len(BuiltinKeyed)
         /\ \A i \in 1..Len(BuiltinKeyed) :
              res[i] = Obj([name |-> Str(BuiltinKeyed[i][1]),
                            argumentLength |-> Num(BuiltinKeyed[i][2])])
         /\ IsTruthySubsequence(SubSeq(res, Len(BuiltinKeyed) + 1, Len(res)),
                                UserList(input["keyedComposables"]))
  /\ Done("transpile") =>
       /\ IsTruthySubsequence(out["transpile"].a, UserList(input["transpile"]))
       /\ Nullish(input["transpile"]) => out["transpile"] = Arr(<<>>)

ListsWitness ==
  /\ Done("keyedComposables") /\ Done("transpile")
  /\ input["keyedComposables"] = Arr(<<Null, Keyed("useState", 4)>>)
  /\ Len(out["keyedComposables"].a) = 8
  /\ out["keyedComposables"].a[3] = Keyed("useState", 2)
  /\ out["keyedComposables"].a[8] = Keyed("useState", 4)
  /\ input["transpile"] = Arr(<<Str("ky"), Bool(FALSE)>>)
  /\ out["transpile"] = Arr(<<Str("ky")>>)

TreeShakeDefaults(f) == IF f = "server" THEN serverDefaults ELSE clientDefaults

(* C8: with dev true the tree-shaken composables of server and client resolve
   to exactly the user's object ({} when unset); with dev false the result
   holds, for 'vue' and '#app', every default name of that build, and every
   package/name the user supplied is still there. *)
TreeShakeDependsOnDev ==
  \A f \in {"server", "client"} :
    Done(f) =>
      LET user == IF input[f].t = "object" THEN input[f].o ELSE Empty
          res == out[f].o
      IN /\ env.dev = Bool(TRUE) => out[f] = Obj(user)
         /\ env.dev = Bool(FALSE) =>
              /\ \A pkg \in {"vue", "#app"} :
                   /\ pkg \in DOMAIN res
                   /\ Range(TreeShakeDefaults(f)[pkg].a) \subseteq Range(res[pkg].a)
              /\ \A pkg \in DOMAIN user :
                   /\ pkg \in DOMAIN res
                   /\ Range(user[pkg].a) \subseteq Range(res[pkg].a)

TreeShakeWitness ==
  /\ Done("server") /\ Done("client")
  /\ env.dev = Bool(FALSE)
  /\ input["server"] = Obj("vue" :> Names(<<"onMounted">>))
  /\ Len(out["server"].o["vue"].a) = 11
  /\ input["client"] = Obj("myPackage" :> Names(<<"useServerOnlyComposable">>))
  /\ DOMAIN out["client"].o = {"vue", "#app", "myPackage"}
  /\ serverDefaults["vue"] /= clientDefaults["vue"]

(* C9: an object builder and a custom package name are returned unchanged; an
   unset builder resolves to '@nuxt/vite-builder' whatever vite is; a falsy
   input that is not undefined resolves to '@nuxt/webpack-builder' when vite
   is exactly false and to '@nuxt/vite-builder' otherwise, and the webpack
   fallback is selected in no other case. *)
BuilderFallThrough ==
  Done("builder") =>
    LET val == input["builder"]
        aliases == {Str("vite"), Str("webpack"), Str("rspack")}
    IN /\ val.t = "object" => out["builder"] = val
       /\ (val.t = "string" /\ Truthy(val) /\ val \notin aliases) => out["builder"] = val
       /\ val = Undefined => out["builder"] = Str("@nuxt/vite-builder")
       /\ (~Truthy(val) /\ val /= Undefined) =>
            out["builder"] = IF env.vite = Bool(FALSE)
                               THEN Str("@nuxt/webpack-builder")
                               ELSE Str("@nuxt/vite-builder")
       /\ (out["builder"] = Str("@nuxt/webpack-builder") /\ val /= Str("webpack")) =>
            (~Truthy(val) /\ val /= Undefined /\ env.vite = Bool(FALSE))

(* the configuration obtained by running the resolvers one after the other,
   each sibling read answered at once *)
Sequential(r, resume) == IF r.done THEN r.value ELSE resume

Resolved(f) ==
  CASE f = "builder" ->
         Sequential(builderResolve(input[f]), builderResume(env.vite))
    [] f = "sourcemap" ->
         Sequential(sourcemapResolve(input[f]), sourcemapResume(input[f], env.dev))
    [] f = "logLevel" -> logLevelResolve(input[f], env.isTest)
    [] f = "transpile" -> transpileResolve(input[f])
    [] f = "analyze" -> analyzeResume(input[f], env.rootDir, env.analyzeDir)
    [] f = "keyedComposables" -> keyedComposablesResolve(input[f])
    [] f \in {"server", "client"} -> treeShakeResume(input[f], env.dev, TreeShakeDefaults(f))

(* C10: resolution is order-insensitive: whatever the order in which the
   resolvers run and their sibling reads settle, the resolved configuration
   is the one sequential resolution gives; a resolver writes only its own
   field's result, and neither the user's input nor the sibling options are
   modified. *)
ResolutionOrderInsensitive ==
  /\ [](\A f \in Fields : Done(f) => out[f] = Resolved(f))
  /\ [][/\ input' = input
        /\ env' = env
        /\ \A f \in Fields : pc'[f] = pc[f] => out'[f] = out[f]]_vars

OrderWitness ==
  /\ AllDone
  /\ Len(got) = 2
  /\ got[1].key = "analyzeDir"
  /\ got[2].key = "rootDir"
  /\ input["builder"] = Str("")
  /\ out["analyze"].o["projectRoot"] = Path(<<"", "proj">>)
  /\ out["analyze"].o["filename"] = Str("stats.html")
  /\ env.vite = Bool(FALSE)
  /\ out["builder"] = Str("@nuxt/webpack-builder")

====
